---- MODULE Spec2Model ----
(***************************************************************************)
(* Session / authorization core of the Enterprise One front end.           *)
(*   contexts/AuthContext.js  (AuthProvider: user, token, loading,         *)
(*                             fetchUser, login, logout)                   *)
(*   App.js                   (ProtectedRoute, AppRoutes)                  *)
(*   pages/LoginPage.js       (handleLogin)                                *)
(*   pages/SubscriptionPage   (pollStatus, which holds refreshUser)        *)
(*   components/AppShell.js   (NAV_ITEMS, ADMIN_NAV, MODULE_GRID, filter)   *)
(*   pages/RegisterPage.js    (handleRegister)                              *)
(* React state is committed per handler: a handler's set-state calls and   *)
(* the effects of the render they cause form one step.  Requests in        *)
(* flight are records of `inflight`; each settles in a step of its own.    *)
(***************************************************************************)
EXTENDS Naturals, FiniteSets, Sequences, Bags

\* ---------------------------------------------------------------- bounds
MaxInFlight == 2        \* requests and timers in flight at the same time
MaxFetches == 3         \* notification fetches issued by one shell
MaxArrivals == 2        \* notifications the server creates
MaxUpdates == 2         \* role updates in flight at the same time
MaxMoves == 2           \* task moves in flight at the same time
MaxMarks == 2           \* mark-read requests in flight at the same time
MaxSearches == 2        \* domain searches in flight at the same time

\* ------------------------------------------------------ program constants
MaxAttempts == 5        \* pollStatus: if (attempts >= 5)

\* ------------------------------------------------------------ value sets
None == "none"
Tokens == {"t1", "t2"}
MaybeToken == Tokens \cup {None}
Roles == {"super_admin", "employee"}

NoUser == [id |-> None, role |-> None]
NoPage == [kind |-> None]
\* the account a bearer token stands for (decided by the server)
IdOf(tok) == IF tok = "t1" THEN "u1" ELSE "u2"
\* data of GET /auth/me, or user of POST /auth/login, for token tok
ProfileOf(tok, role) == [id |-> IdOf(tok), role |-> role]
Profiles == {ProfileOf(t, r) : t \in Tokens, r \in Roles}

SubReturn == "/subscription?session_id"
ProtectedPaths ==
    {"/dashboard", "/crm", "/projects", "/hr", "/finance", "/subscription",
     "/notifications", "/audit-logs", "/users", "/analytics", "/ideas", "/pitch",
     "/settings"}
Locations == {"/", "/login", "/register", "/setup-biometrics", "/nowhere", SubReturn}
                \cup ProtectedPaths
\* the locations the session specifications visit: one of each kind of
\* route (public, login, register, unknown, protected), and those of the
\* return from a payment
Visited == {"/", "/login", "/register", "/nowhere", "/dashboard", "/users"}
VisitedPoll == Visited \cup {"/subscription", SubReturn}
\* location.pathname
Pathname(loc) == IF loc = SubReturn THEN "/subscription" ELSE loc
\* searchParams.get('session_id')
HasSessionId(loc) == loc = SubReturn

VARIABLES
    user,       \* AuthProvider state: profile or NoUser (null)
    token,      \* AuthProvider state: token or None (null)
    loading,    \* AuthProvider state
    ls,         \* localStorage 'token'
    header,     \* api.defaults.headers.common['Authorization'] (token or None)
    mounted,    \* the effects of the first render have run
    loc,        \* router location
    view,       \* what AppRoutes rendered at the last commit
    inflight,   \* requests and timers not yet settled
    nav,        \* the navigation AppShell rendered at the last commit
    pollDue,    \* SubscriptionPage's poll effect is due
    checking,   \* SubscriptionPage state: checkingPayment
    last,       \* the last operation (history)
    page        \* local state of the component a component specification follows

vars == <<user, token, loading, ls, header, mounted, loc, view, nav,
          inflight, pollDue, checking, last, page>>

\* ------------------------------------------------------------- rendering
Spinner == [kind |-> "spinner", at |-> "-"]
NavigateTo(p) == [kind |-> "navigate", at |-> p]
Page(p) == [kind |-> "page", at |-> p]
Shell(p) == [kind |-> "shell", at |-> p]

\* a guard that lets an anonymous session through
ProtectedRouteNoUserCheck(u, l, p) ==
    IF l THEN Spinner
    ELSE Shell(p)

\* a guard that also enforces the allowed roles of the administration paths
ProtectedRouteChecksRole(u, l, p) ==
    IF l THEN Spinner
    ELSE IF u = NoUser THEN NavigateTo("/login")
    ELSE IF p \in {"/users", "/audit-logs"} /\ u.role \notin {"super_admin", "main_handler"}
         THEN NavigateTo("/dashboard")
    ELSE Shell(p)

ProtectedRoute(u, l, p) ==
    IF l THEN Spinner
    ELSE IF u = NoUser THEN NavigateTo("/login")
    ELSE Shell(p)

\* AppRoutes without its loading check (only ProtectedRoute waits)
AppRoutesNoLoadingCheck(u, l, location) ==
    LET p == Pathname(location) IN
    IF p = "/" THEN Page("/")
    ELSE IF p \in {"/login", "/register"}
         THEN (IF u # NoUser THEN NavigateTo("/dashboard") ELSE Page(p))
    ELSE IF p = "/setup-biometrics"
         THEN (IF u # NoUser THEN Page(p) ELSE NavigateTo("/login"))
    ELSE IF p \in ProtectedPaths THEN ProtectedRoute(u, l, p)
    ELSE NavigateTo("/")

AppRoutes(u, l, location) ==
    LET p == Pathname(location) IN
    IF l THEN Spinner
    ELSE IF p = "/" THEN Page("/")
    ELSE IF p \in {"/login", "/register"}
         THEN (IF u # NoUser THEN NavigateTo("/dashboard") ELSE Page(p))
    ELSE IF p = "/setup-biometrics"
         THEN (IF u # NoUser THEN Page(p) ELSE NavigateTo("/login"))
    ELSE IF p \in ProtectedPaths THEN ProtectedRoute(u, l, p)
    ELSE NavigateTo("/")

SubscriptionShown(v) == v = Shell("/subscription")

\* ------------------------------------------------------------ navigation
\* the roles the entry lists name
BaseRoles == {"super_admin", "main_handler", "admin", "employee"}
\* the roles the user-management selector can assign
AssignableRoles ==
    {"super_admin", "main_handler", "admin", "ceo", "hr", "manager", "server",
     "employee"}
Entry(p, lbl, rs) == [path |-> p, label |-> lbl, roles |-> rs]
NAV_ITEMS ==
    << Entry("/dashboard", "Dashboard", BaseRoles),
       Entry("/crm", "CRM", {"super_admin", "main_handler", "admin"}),
       Entry("/projects", "Projects", BaseRoles),
       Entry("/hr", "HR", BaseRoles),
       Entry("/finance", "Finance", BaseRoles),
       Entry("/subscription", "Subscription", BaseRoles) >>
ADMIN_NAV ==
    << Entry("/users", "Users", {"super_admin", "main_handler"}),
       Entry("/audit-logs", "Audit Logs", {"super_admin", "main_handler"}) >>
\* the waffle menu: paths only, no roles
MODULE_GRID ==
    << "/crm", "/projects", "/hr", "/finance", "/subscription", "/notifications" >>
\* the user menu (Subscription, Notifications) and the bell button
HeaderLinks == {"/subscription", "/notifications"}

\* a filter that keeps the entries in reverse order
NavFilterReversed(items, role) ==
    LET F[i \in 0..Len(items)] ==
            IF i = 0 THEN << >>
            ELSE IF role \in items[i].roles THEN <<items[i]>> \o F[i - 1]
            ELSE F[i - 1]
    IN  F[Len(items)]

\* items.filter(n => n.roles.includes(role)): the entries are visited in
\* order and each one that passes is appended to a new array
NavFilter(items, role) ==
    LET F[i \in 0..Len(items)] ==
            IF i = 0 THEN << >>
            ELSE IF role \in items[i].roles THEN Append(F[i - 1], items[i])
            ELSE F[i - 1]
    IN  F[Len(items)]

\* what AppShell renders as navigation for user u when the view v is
\* inside the shell: filteredNav, filteredAdmin and the waffle grid
NoNav == [main |-> << >>, admin |-> << >>, grid |-> << >>]
AppShell(u, v) ==
    IF v.kind = "shell"
    THEN [main |-> NavFilter(NAV_ITEMS, u.role),
          admin |-> NavFilter(ADMIN_NAV, u.role),
          grid |-> MODULE_GRID]
    ELSE NoNav
\* the paths the rendered shell offers
Range(seq) == {seq[i] : i \in 1..Len(seq)}
Offered(n) ==
    {e.path : e \in Range(n.main) \cup Range(n.admin)} \cup Range(n.grid)
        \cup (IF n = NoNav THEN {} ELSE HeaderLinks)

\* ------------------------------------------------------------- requests
\* inflight is a bag: two equal requests in flight are two requests
HasRoom == BagCardinality(inflight) < MaxInFlight
Pending == BagToSet(inflight)
Add(reqs, r) == reqs (+) SetToBag({r})
Remove(reqs, r) == reqs (-) SetToBag({r})

\* a request (or timer): sent is the Authorization header it carries, cl the
\* token captured by the fetchUser its issuer holds (pollStatus only)
Req(k, sent, cl, origin, n) ==
    [kind |-> k, sent |-> sent, cl |-> cl, origin |-> origin, attempts |-> n]

\* the record of the last operation: its name, outcome, the request it
\* settled, the profile the server answered with and the toast it showed
Op(name, out, r, resp, tst) ==
    [op |-> name, out |-> out, sent |-> r.sent, origin |-> r.origin,
     resp |-> resp, toast |-> tst]
NoReq == [sent |-> None, origin |-> "-"]
Quiet(name) == Op(name, "-", NoReq, NoUser, None)

\* ---------------------------------------------------------------- commit
\* Nothing cancels a poll when SubscriptionPage unmounts: its requests and
\* timers stay, but they belong to a component that is gone (origin "gone"),
\* whose set-state calls do nothing.
Orphan(r) == IF r.kind \in {"poll", "timer"} THEN [r EXCEPT !.origin = "gone"] ELSE r
Kept(reqs, v) ==
    IF SubscriptionShown(view) /\ ~SubscriptionShown(v) THEN BagOfAll(Orphan, reqs) ELSE reqs

\* A render with the new state u, t, l at location newLoc, followed by the
\* effects of AuthProvider: the Authorization header follows the token, and
\* fetchUser runs when its identity changed (token changed).  reqs are the
\* requests left in flight by the handler.
Commit(u, t, l, newLoc, reqs) ==
    LET changed == t # token
        l2 == IF changed /\ t = None THEN FALSE ELSE l
        v == AppRoutes(u, l2, newLoc)
    IN  /\ user' = u
        /\ token' = t
        /\ loading' = l2
        /\ header' = t
        /\ loc' = newLoc
        /\ view' = v
        /\ nav' = AppShell(u, v)
        /\ inflight' = IF changed /\ t # None
                       THEN Add(Kept(reqs, v), Req("me", t, None, "effect", 0))
                       ELSE Kept(reqs, v)
        /\ checking' = (SubscriptionShown(v) /\ checking)
        /\ pollDue' = /\ SubscriptionShown(v)
                      /\ HasSessionId(newLoc)
                      /\ \/ ~SubscriptionShown(view)
                         \/ ~HasSessionId(loc)
                         \/ changed
                         \/ pollDue

\* ------------------------------------------------------------------ Init
Init ==
    /\ ls \in MaybeToken
    /\ user = NoUser
    /\ token = ls
    /\ loading = TRUE
    /\ header = None
    /\ mounted = FALSE
    /\ loc \in Locations
    /\ view = Spinner
    /\ nav = NoNav
    /\ inflight = EmptyBag
    /\ pollDue = FALSE
    /\ checking = FALSE
    /\ last = Quiet("init")
    /\ page = NoPage

\* --------------------------------------------------------------- actions
\* first effects that set the header but never call fetchUser
MountSkipsRefresh ==
    /\ ~mounted
    /\ mounted' = TRUE
    /\ header' = token
    /\ loading' = (token # None)
    /\ inflight' = inflight
    /\ view' = AppRoutes(user, loading', loc)
    /\ nav' = AppShell(user, view')
    /\ pollDue' = FALSE
    /\ checking' = FALSE
    /\ last' = Quiet("mount")
    /\ UNCHANGED <<user, token, ls, loc>>
    /\ UNCHANGED page

\* first effects that always call the server
MountAlwaysFetches ==
    /\ ~mounted
    /\ mounted' = TRUE
    /\ header' = token
    /\ loading' = loading
    /\ inflight' = SetToBag({Req("me", token, None, "mount", 0)})
    /\ view' = AppRoutes(user, loading', loc)
    /\ nav' = AppShell(user, view')
    /\ pollDue' = FALSE
    /\ checking' = FALSE
    /\ last' = Quiet("mount")
    /\ UNCHANGED <<user, token, ls, loc>>
    /\ UNCHANGED page

\* first effects of AuthProvider: header effect, then fetchUser()
Mount ==
    /\ ~mounted
    /\ mounted' = TRUE
    /\ header' = token
    /\ IF token = None
       THEN /\ loading' = FALSE
            /\ inflight' = inflight
       ELSE /\ loading' = loading
            /\ inflight' = SetToBag({Req("me", token, None, "mount", 0)})
    /\ view' = AppRoutes(user, loading', loc)
    /\ nav' = AppShell(user, view')
    /\ pollDue' = FALSE
    /\ checking' = FALSE
    /\ last' = Quiet("mount")
    /\ UNCHANGED <<user, token, ls, loc>>
    /\ UNCHANGED page

\* a full page load at location p: the app is constructed anew; requests
\* and timers of the old page are gone, localStorage stays
Reload(p) ==
    /\ mounted
    /\ user' = NoUser
    /\ token' = ls
    /\ loading' = TRUE
    /\ header' = None
    /\ mounted' = FALSE
    /\ loc' = p
    /\ view' = Spinner
    /\ nav' = NoNav
    /\ inflight' = EmptyBag
    /\ pollDue' = FALSE
    /\ checking' = FALSE
    /\ last' = Quiet("reload")
    /\ UNCHANGED ls
    /\ UNCHANGED page

\* in-app navigation (link, menu entry, back/forward) to location p
GoTo(p) ==
    /\ mounted
    /\ p # loc
    /\ Commit(user, token, loading, p, inflight)
    /\ last' = Quiet("goto")
    /\ UNCHANGED <<ls, mounted>>
    /\ UNCHANGED page

\* the effect of a rendered <Navigate to=... replace />
FollowNavigate ==
    /\ mounted
    /\ view.kind = "navigate"
    /\ Commit(user, token, loading, view.at, inflight)
    /\ last' = Quiet("navigate")
    /\ UNCHANGED <<ls, mounted>>
    /\ UNCHANGED page

\* LoginPage.handleLogin up to the await of login(): api.post('/auth/login')
LoginSubmit(filled) ==
    /\ mounted
    /\ view = Page("/login")
    /\ IF ~filled
       THEN /\ last' = Op("login_invalid", "-", NoReq, NoUser, "enter_credentials")
            /\ UNCHANGED inflight
       ELSE /\ HasRoom
            /\ inflight' = Add(inflight, Req("login", None, None, "login_page", 0))
            /\ last' = Quiet("login_submit")
    /\ UNCHANGED <<user, token, loading, ls, header, mounted, loc, view, nav, pollDue, checking>>
    /\ UNCHANGED page

\* what the caller of login() toasts: handleLogin 'Welcome back!' or
\* 'Login failed'; handleRegister nothing or 'Registration failed'
Toast(r, out) ==
    IF r.origin = "login_page"
    THEN IF out = "ok" THEN "welcome" ELSE "login_failed"
    ELSE IF out = "ok" THEN None ELSE "registration_failed"

\* the effects of a dashboard that mounts: DashboardPage's
\* api.get('/dashboard/stats') and AppShell's api.get('/notifications'),
\* both with the Authorization header h of that moment; none when the
\* dashboard is already shown
FirstRequests(reqs, h) ==
    IF view = Shell("/dashboard")
    THEN reqs
    ELSE Add(Add(reqs, Req("module", h, None, "shell", 0)),
             Req("module", h, None, "shell", 0))

\* login that forgets localStorage.setItem
LoginOkSkipsStorage(r, tok, role) ==
    /\ ls' = ls
    /\ \E h \in {header, tok} :
           Commit(ProfileOf(tok, role), tok, loading, "/dashboard",
                  FirstRequests(Remove(inflight, r), h))
    /\ last' = Op("login", "ok", [sent |-> tok, origin |-> r.origin],
                  ProfileOf(tok, role), Toast(r, "ok"))
    /\ UNCHANGED mounted
    /\ UNCHANGED page

\* a login that shows the spinner again while the profile is refreshed
LoginOkRestartsLoading(r, tok, role) ==
    /\ ls' = tok
    /\ \E h \in {header, tok} :
           Commit(ProfileOf(tok, role), tok, TRUE, "/dashboard",
                  FirstRequests(Remove(inflight, r), h))
    /\ last' = Op("login", "ok", [sent |-> tok, origin |-> r.origin],
                  ProfileOf(tok, role), Toast(r, "ok"))
    /\ UNCHANGED mounted
    /\ UNCHANGED page

\* AuthProvider.login after the await, success: the server answered with
\* token tok and the profile of its account; then handleLogin's
\* toast.success and navigate('/dashboard').  The dashboard mounts in the
\* render that shows the new token or in a later one (batched or unbatched
\* set-state calls after an await), so its first requests are issued before
\* or after AuthProvider's header effect: h is the header they carry.
LoginOk(r, tok, role) ==
    /\ ls' = tok
    /\ \E h \in {header, tok} :
           Commit(ProfileOf(tok, role), tok, loading, "/dashboard",
                  FirstRequests(Remove(inflight, r), h))
    /\ last' = Op("login", "ok", [sent |-> tok, origin |-> r.origin],
                  ProfileOf(tok, role), Toast(r, "ok"))
    /\ UNCHANGED mounted
    /\ UNCHANGED page

\* a failed login that clears the session
LoginFailClearsSession(r, out) ==
    /\ ls' = None
    /\ Commit(NoUser, None, loading, loc, Remove(inflight, r))
    /\ last' = Op("login", out, r, NoUser, Toast(r, out))
    /\ UNCHANGED mounted
    /\ UNCHANGED page

\* api.post('/auth/login') rejected (credentials or transport): login throws
\* at its first line, handleLogin's catch toasts and does not navigate
LoginFail(r, out) ==
    /\ inflight' = Remove(inflight, r)
    /\ last' = Op("login", out, r, NoUser, Toast(r, out))
    /\ UNCHANGED <<user, token, loading, ls, header, mounted, loc, view, nav, pollDue, checking>>
    /\ UNCHANGED page

LoginSettle ==
    \E r \in Pending :
        /\ r.kind = "login"
        /\ \/ \E tok \in Tokens, role \in Roles : LoginOk(r, tok, role)
           \/ \E out \in {"rejected", "network"} : LoginFail(r, out)

\* RegisterPage.handleRegister up to its first await: the two validations,
\* then api.post('/auth/register')
RegisterSubmit(valid) ==
    /\ mounted
    /\ view = Page("/register")
    /\ IF ~valid
       THEN /\ last' = Op("register_invalid", "-", NoReq, NoUser, "invalid_form")
            /\ UNCHANGED inflight
       ELSE /\ HasRoom
            /\ inflight' = Add(inflight, Req("register", None, None, "register_page", 0))
            /\ last' = Quiet("register_submit")
    /\ UNCHANGED <<user, token, loading, ls, header, mounted, loc, view, nav, pollDue, checking>>
    /\ UNCHANGED page

\* handleRegister after POST /auth/register answered with token tok:
\* localStorage.setItem('token', res.data.token), toast.success, then
\* login(form.email, form.password) up to its await
RegisterOk(r, tok) ==
    /\ ls' = tok
    /\ inflight' = Add(Remove(inflight, r), Req("login", None, None, "register_page", 0))
    /\ last' = Op("register", "ok", [sent |-> tok, origin |-> r.origin],
                  NoUser, "account_created")
    /\ UNCHANGED <<user, token, loading, header, mounted, loc, view, nav, pollDue, checking>>
    /\ UNCHANGED page

\* handleRegister's catch: toast.error
RegisterFail(r, out) ==
    /\ inflight' = Remove(inflight, r)
    /\ last' = Op("register", out, r, NoUser, "registration_failed")
    /\ UNCHANGED <<user, token, loading, ls, header, mounted, loc, view, nav, pollDue, checking>>
    /\ UNCHANGED page

RegisterSettle ==
    \E r \in Pending :
        /\ r.kind = "register"
        /\ \/ \E tok \in Tokens : RegisterOk(r, tok)
           \/ \E out \in {"rejected", "network"} : RegisterFail(r, out)

\* logout that forgets localStorage.removeItem
LogoutKeepsStorage ==
    /\ mounted
    /\ view.kind = "shell"
    /\ ls' = ls
    /\ Commit(NoUser, None, loading, loc, inflight)
    /\ last' = Quiet("logout")
    /\ UNCHANGED mounted
    /\ UNCHANGED page

\* AuthProvider.logout, from the AppShell menu
Logout ==
    /\ mounted
    /\ view.kind = "shell"
    /\ ls' = None
    /\ Commit(NoUser, None, loading, loc, inflight)
    /\ last' = Quiet("logout")
    /\ UNCHANGED mounted
    /\ UNCHANGED page

\* fetchUser without its finally { setLoading(false) }
MeOkKeepsLoading(r, role) ==
    /\ r.sent # None
    /\ Commit(ProfileOf(r.sent, role), token, loading, loc, Remove(inflight, r))
    /\ last' = Op("refresh", "ok", r, ProfileOf(r.sent, role), None)
    /\ UNCHANGED <<ls, mounted>>
    /\ UNCHANGED page

\* fetchUser after the await, success: setUser(res.data), setLoading(false).
\* The server answers for the token the request carried.
MeOk(r, role) ==
    /\ r.sent # None
    /\ Commit(ProfileOf(r.sent, role), token, FALSE, loc, Remove(inflight, r))
    /\ last' = Op("refresh", "ok", r, ProfileOf(r.sent, role), None)
    /\ UNCHANGED <<ls, mounted>>
    /\ UNCHANGED page

\* fetchUser's catch without localStorage.removeItem
MeFailKeepsStorage(r, out) ==
    /\ ls' = ls
    /\ Commit(NoUser, None, FALSE, loc, Remove(inflight, r))
    /\ last' = Op("refresh", out, r, NoUser, None)
    /\ UNCHANGED mounted
    /\ UNCHANGED page

\* fetchUser whose catch clears the session on a rejection only
MeFailIgnoresTransport(r, out) ==
    /\ ls' = IF out = "network" THEN ls ELSE None
    /\ IF out = "network"
       THEN Commit(user, token, FALSE, loc, Remove(inflight, r))
       ELSE Commit(NoUser, None, FALSE, loc, Remove(inflight, r))
    /\ last' = Op("refresh", out, r, NoUser, None)
    /\ UNCHANGED mounted
    /\ UNCHANGED page

\* fetchUser's catch, for any error (a 401 as well as a transport failure):
\* removeItem('token'), setToken(null), setUser(null), setLoading(false)
MeFail(r, out) ==
    /\ ls' = None
    /\ Commit(NoUser, None, FALSE, loc, Remove(inflight, r))
    /\ last' = Op("refresh", out, r, NoUser, None)
    /\ UNCHANGED mounted
    /\ UNCHANGED page

MeSettle ==
    \E r \in Pending :
        /\ r.kind = "me"
        /\ \/ \E role \in Roles : MeOk(r, role)
           \/ \E out \in {"rejected", "network"} : MeFail(r, out)

\* SubscriptionPage's effect [searchParams, pollStatus]: with a session_id,
\* pollStatus(sessionId) issues GET /subscriptions/status; the pollStatus
\* of this render holds the fetchUser of this render (its token)
StartPoll ==
    /\ mounted
    /\ pollDue
    /\ HasRoom
    /\ inflight' = Add(inflight, Req("poll", header, token, "poll", 0))
    /\ pollDue' = FALSE
    /\ checking' = TRUE
    /\ last' = Quiet("poll_start")
    /\ UNCHANGED <<user, token, loading, ls, header, mounted, loc, view, nav>>
    /\ UNCHANGED page

\* fetchUser called through a held reference whose closure captured token cl
\* (refreshUser inside pollStatus): no token -> setLoading(false), else
\* api.get('/auth/me') with the header of this moment
RefreshUser(cl, reqs) ==
    IF cl = None
    THEN /\ loading' = FALSE
         /\ view' = AppRoutes(user, FALSE, loc)
         /\ nav' = AppShell(user, view')
         /\ inflight' = reqs
         /\ UNCHANGED <<user, token, header, loc, pollDue>>
    ELSE /\ inflight' = Add(reqs, Req("me", header, None, "poll", 0))
         /\ UNCHANGED <<user, token, loading, header, loc, view, nav, pollDue>>

\* setCheckingPayment(false) of the poll that request or timer r belongs to
Cleared(r) == IF r.origin = "gone" THEN checking ELSE FALSE

\* a pollStatus whose catch and expired branch leave checkingPayment set
PollSettleErrorKeepsFlag(r, out) ==
    LET rest == Remove(inflight, r) IN
    /\ r.kind = "poll"
    /\ CASE out = "paid" ->
              /\ checking' = Cleared(r)
              /\ RefreshUser(r.cl, rest)
              /\ last' = Op("poll", out, r, NoUser, "activated")
         [] out = "pending" ->
              /\ inflight' = Add(rest, Req("timer", None, r.cl, r.origin, r.attempts + 1))
              /\ last' = Op("poll", out, r, NoUser, None)
              /\ UNCHANGED <<user, token, loading, header, loc, view, nav, pollDue, checking>>
         [] OTHER ->
              /\ checking' = checking
              /\ inflight' = rest
              /\ last' = Op("poll", out, r, NoUser,
                            IF out = "expired" THEN "session_expired" ELSE "check_failed")
              /\ UNCHANGED <<user, token, loading, header, loc, view, nav, pollDue>>
    /\ UNCHANGED <<ls, mounted>>
    /\ UNCHANGED page

\* pollStatus after the await: paid -> await refreshUser(); expired or
\* error -> stop; otherwise setTimeout(pollStatus(sessionId, attempts + 1))
PollSettle(r, out) ==
    LET rest == Remove(inflight, r) IN
    /\ r.kind = "poll"
    /\ CASE out = "paid" ->
              /\ checking' = Cleared(r)
              /\ RefreshUser(r.cl, rest)
              /\ last' = Op("poll", out, r, NoUser, "activated")
         [] out = "pending" ->
              /\ inflight' = Add(rest, Req("timer", None, r.cl, r.origin, r.attempts + 1))
              /\ last' = Op("poll", out, r, NoUser, None)
              /\ UNCHANGED <<user, token, loading, header, loc, view, nav, pollDue, checking>>
         [] OTHER ->
              /\ checking' = Cleared(r)
              /\ inflight' = rest
              /\ last' = Op("poll", out, r, NoUser,
                            IF out = "expired" THEN "session_expired" ELSE "check_failed")
              /\ UNCHANGED <<user, token, loading, header, loc, view, nav, pollDue>>
    /\ UNCHANGED <<ls, mounted>>
    /\ UNCHANGED page

\* the 2 s timer fires: pollStatus(sessionId, attempts) of the same closure
TimerFire(r) ==
    LET rest == Remove(inflight, r) IN
    /\ r.kind = "timer"
    /\ IF r.attempts >= MaxAttempts
       THEN /\ inflight' = rest
            /\ checking' = Cleared(r)
            /\ last' = Op("timer", "-", r, NoUser, "timed_out")
       ELSE /\ inflight' = Add(rest, Req("poll", header, r.cl, r.origin, r.attempts))
            /\ checking' = checking
            /\ last' = Op("timer", "-", r, NoUser, None)
    /\ UNCHANGED <<user, token, loading, ls, header, mounted, loc, view, nav, pollDue>>
    /\ UNCHANGED page

\* a module request of a view inside the shell (AppShell's
\* api.get('/notifications') and the pages' list calls)
ModuleCall ==
    /\ mounted
    /\ view.kind = "shell"
    /\ HasRoom
    /\ inflight' = Add(inflight, Req("module", header, None, "shell", 0))
    /\ last' = Quiet("module_call")
    /\ UNCHANGED <<user, token, loading, ls, header, mounted, loc, view, nav, pollDue, checking>>
    /\ UNCHANGED page

\* a module call whose failure logs the user out
ModuleSettleLogsOut(r, out) ==
    /\ r.kind = "module"
    /\ ls' = IF out # "ok" THEN None ELSE ls
    /\ IF out # "ok"
       THEN Commit(NoUser, None, loading, loc, Remove(inflight, r))
       ELSE /\ inflight' = Remove(inflight, r)
            /\ UNCHANGED <<user, token, loading, header, loc, view, nav, pollDue, checking>>
    /\ last' = Op("module", out, r, NoUser, None)
    /\ UNCHANGED mounted
    /\ UNCHANGED page

\* a module call whose rejection removes the stored token
ModuleSettleClearsStorage(r, out) ==
    /\ r.kind = "module"
    /\ inflight' = Remove(inflight, r)
    /\ ls' = IF out = "rejected" THEN None ELSE ls
    /\ last' = Op("module", out, r, NoUser, None)
    /\ UNCHANGED <<user, token, loading, header, mounted, loc, view, nav, pollDue, checking>>
    /\ UNCHANGED page

\* .then(r => setNotifications(r.data)).catch(() => {}): the session is not
\* touched, whatever the answer
ModuleSettle(r, out) ==
    /\ r.kind = "module"
    /\ inflight' = Remove(inflight, r)
    /\ last' = Op("module", out, r, NoUser, None)
    /\ UNCHANGED <<user, token, loading, ls, header, mounted, loc, view, nav, pollDue, checking>>
    /\ UNCHANGED page

\* the session core: AuthProvider, the router, the login page, module calls
InitSession == Init /\ loc \in Visited
Next ==
    \/ Mount
    \/ \E p \in Visited : Reload(p)
    \/ \E p \in Visited : GoTo(p)
    \/ FollowNavigate
    \/ \E filled \in BOOLEAN : LoginSubmit(filled)
    \/ LoginSettle
    \/ \E valid \in BOOLEAN : RegisterSubmit(valid)
    \/ RegisterSettle
    \/ Logout
    \/ MeSettle
    \/ ModuleCall
    \/ \E r \in Pending, out \in {"ok", "rejected", "network"} : ModuleSettle(r, out)

Spec == InitSession /\ [][Next]_vars

\* the session core together with SubscriptionPage's payment poll, whose
\* pollStatus holds a reference to refreshUser
InitPoll == Init /\ loc \in VisitedPoll
NextPoll ==
    \/ Next
    \/ \E p \in VisitedPoll : Reload(p)
    \/ \E p \in VisitedPoll : GoTo(p)
    \/ StartPoll
    \/ \E r \in Pending, out \in {"paid", "pending", "expired", "error"} : PollSettle(r, out)
    \/ \E r \in Pending : TimerFire(r)

SpecPoll == InitPoll /\ [][NextPoll]_vars

\* the return from a payment: a page load at /subscription?session_id=...
\* with a stored token, the user moving between the subscription page and
\* the dashboard while the poll runs; every request is eventually answered
\* and every timer eventually fires
InitCheckout == Init /\ ls = "t1" /\ loc = SubReturn
NextCheckout ==
    \/ Mount
    \/ MeSettle
    \/ StartPoll
    \/ \E r \in Pending, out \in {"paid", "pending", "expired", "error"} : PollSettle(r, out)
    \/ \E r \in Pending : TimerFire(r)
    \/ \E p \in {"/subscription", SubReturn, "/dashboard"} : GoTo(p)

SpecCheckout ==
    /\ InitCheckout
    /\ [][NextCheckout]_vars
    /\ WF_vars(StartPoll)
    /\ WF_vars(\E r \in Pending, out \in {"paid", "pending", "expired", "error"} : PollSettle(r, out))
    /\ WF_vars(\E r \in Pending : TimerFire(r))

\* one app load with a stored token, the server answering GET /auth/me with
\* any role the user-management selector can assign
InitNav == Init /\ ls \in Tokens
NextNav ==
    \/ Mount
    \/ \E r \in Pending, role \in AssignableRoles : r.kind = "me" /\ MeOk(r, role)
    \/ \E p \in Locations : GoTo(p)
    \/ FollowNavigate

SpecNav == InitNav /\ [][NextNav]_vars

\* the router over every route of App.js, for a session that is loaded,
\* refreshed, logged out and reloaded
NextRoutes ==
    \/ Mount
    \/ MeSettle
    \/ Logout
    \/ \E p \in Locations : GoTo(p)
    \/ \E p \in Locations : Reload(p)
    \/ FollowNavigate

SpecRoutes == Init /\ [][NextRoutes]_vars

\* the same, when the effects of the first render run and every GET /auth/me
\* in flight is eventually answered (or fails)
SpecFair == SpecRoutes /\ WF_vars(Mount) /\ WF_vars(MeSettle)

\* ------------------------------------------------- component-local state
\* The session actions above leave page alone; the specifications below
\* follow one mounted component each, with the session as it stands.
session == <<user, token, loading, ls, header, mounted, loc, view, nav, inflight, pollDue,
            checking>>

\* a session as a page load with a stored token and an answered GET /auth/me
\* leaves it, at location p
SignedIn(tok, role, p) ==
    /\ user = ProfileOf(tok, role)
    /\ token = tok
    /\ loading = FALSE
    /\ ls = tok
    /\ header = tok
    /\ mounted = TRUE
    /\ loc = p
    /\ view = AppRoutes(user, FALSE, p)
    /\ nav = AppShell(user, view)
    /\ inflight = EmptyBag
    /\ pollDue = FALSE
    /\ checking = FALSE
    /\ last = Quiet("init")

\* ------------------------------------------- AppShell: the notification bell
\* AppShell's state: the server's notification list is abstracted to the
\* number of notifications it holds (all unread), shown is the list in
\* useState (0 = []), pending the GET /notifications not yet settled, data
\* the list a response carries once the server has answered; applied and
\* newest record the request applied last and the latest request applied.
NoFetch == [seq |-> 0, answered |-> TRUE, data |-> 0]
Fetch(n) == [seq |-> n, answered |-> FALSE, data |-> 0]
ShellState(srv, shown, pend, n, appl, nw) ==
    [kind |-> "shell", server |-> srv, shown |-> shown, pending |-> pend,
     issued |-> n, applied |-> appl, newest |-> nw]
\* const unread = notifications.filter(n => !n.read).length
Unread(pg) == pg.shown

\* AppShell mounts at /dashboard: useState([]) and the effect's first fetch
InitShell ==
    /\ SignedIn("t1", "employee", "/dashboard")
    /\ \E srv \in 0..1 :
           page = ShellState(srv, 0, {Fetch(1)}, 1, NoFetch, NoFetch)

\* the server creates a notification
ShellArrival ==
    /\ page.server < MaxArrivals
    /\ page' = [page EXCEPT !.server = @ + 1]
    /\ last' = Quiet("arrival")
    /\ UNCHANGED session

\* navigation to another protected path: the effect [location.pathname]
\* runs again and issues api.get('/notifications'); nothing is cancelled
ShellPathChange(p) ==
    /\ view.kind = "shell"
    /\ p \in ProtectedPaths
    /\ p # Pathname(loc)
    /\ page.issued < MaxFetches
    /\ Commit(user, token, loading, p, inflight)
    /\ page' = [page EXCEPT !.issued = @ + 1,
                            !.pending = @ \cup {Fetch(page.issued + 1)}]
    /\ last' = Quiet("goto")
    /\ UNCHANGED <<ls, mounted>>

\* the server answers a fetch with the list of that moment
ShellAnswer(f) ==
    /\ f \in page.pending
    /\ ~f.answered
    /\ page' = [page EXCEPT !.pending = (@ \ {f}) \cup {[f EXCEPT !.answered = TRUE, !.data = page.server]}]
    /\ last' = Quiet("answer")
    /\ UNCHANGED session

\* a response handler that drops the answer of a request older than the
\* latest one applied
ShellSettleGuarded(f, ok) ==
    /\ f \in page.pending
    /\ f.answered
    /\ page' = [page EXCEPT !.pending = @ \ {f},
                            !.shown = IF ok /\ f.seq > page.newest.seq THEN f.data ELSE @,
                            !.applied = IF ok THEN f ELSE @,
                            !.newest = IF ok /\ f.seq > @.seq THEN f ELSE @]
    /\ last' = Quiet(IF ok THEN "notifications" ELSE "notifications_failed")
    /\ UNCHANGED session

\* .then(r => setNotifications(r.data)).catch(() => {})
ShellSettle(f, ok) ==
    /\ f \in page.pending
    /\ f.answered
    /\ page' = [page EXCEPT !.pending = @ \ {f},
                            !.shown = IF ok THEN f.data ELSE @,
                            !.applied = IF ok THEN f ELSE @,
                            !.newest = IF ok /\ f.seq > @.seq THEN f ELSE @]
    /\ last' = Quiet(IF ok THEN "notifications" ELSE "notifications_failed")
    /\ UNCHANGED session

NextShell ==
    \/ ShellArrival
    \/ \E p \in {"/dashboard", "/crm", "/projects"} : ShellPathChange(p)
    \/ \E f \in page.pending : ShellAnswer(f)
    \/ \E f \in page.pending, ok \in BOOLEAN : ShellSettle(f, ok)

SpecShell == InitShell /\ [][NextShell]_vars

\* ------------------------------------------------- UserManagementPage
\* the accounts GET /users lists, and the roles a test changes a row to
UserIds == {"u1", "u2", "u3"}
NewRoles == {"super_admin", "admin", "employee"}

\* the role cell of row rowId rendered for the viewer u without the
\* comparison with the viewer's id
RoleCellNoSelfCheck(u, rowId) ==
    IF u.role = "super_admin" THEN "select" ELSE "badge"

\* user?.role === 'super_admin' && u.id !== user?.id ? <Select> : <Badge>
RoleCell(u, rowId) ==
    IF u.role = "super_admin" /\ rowId # u.id THEN "select" ELSE "badge"

\* the page's state: users (row id -> role), the role cells rendered for
\* them and the PUT /users/:id/role not yet settled
UsersState(rows, pend) ==
    [kind |-> "users", users |-> rows,
     cells |-> [id \in UserIds |-> RoleCell(user, id)], pending |-> pend]

\* the page mounted for a viewer of any role, GET /users answered
InitUsers ==
    /\ \E tok \in Tokens, role \in AssignableRoles : SignedIn(tok, role, "/users")
    /\ page = UsersState([id \in UserIds |-> IF id = user.id THEN user.role ELSE "employee"],
                         {})

\* onValueChange of a row's <Select>: updateRole(u.id, v) up to its await;
\* users is the list of the render the handler was created in
UpdateRole(rowId, newRole) ==
    /\ page.cells[rowId] = "select"
    /\ newRole # page.users[rowId]
    /\ Cardinality(page.pending) < MaxUpdates
    /\ page' = [page EXCEPT !.pending = @ \cup
                   {[id |-> rowId, role |-> newRole, by |-> user, users |-> page.users]}]
    /\ last' = Quiet("update_role")
    /\ UNCHANGED session

\* updateRole after the await: setUsers(users.map(...)) and a toast, or
\* the catch's toast
UpdateRoleSettle(r, ok) ==
    /\ r \in page.pending
    /\ page' = IF ok
               THEN UsersState([r.users EXCEPT ![r.id] = r.role], page.pending \ {r})
               ELSE [page EXCEPT !.pending = @ \ {r}]
    /\ last' = Op("update_role_settle", IF ok THEN "ok" ELSE "rejected", NoReq, NoUser,
                  IF ok THEN "role_updated" ELSE "failed")
    /\ UNCHANGED session

NextUsers ==
    \/ \E rowId \in UserIds, newRole \in NewRoles : UpdateRole(rowId, newRole)
    \/ \E r \in page.pending, ok \in BOOLEAN : UpdateRoleSettle(r, ok)

SpecUsers == InitUsers /\ [][NextUsers]_vars

\* ------------------------------------------------ ProjectsPage: kanban
TaskIds == {"k1", "k2", "k3"}
COLUMNS == {"todo", "in_progress", "review", "done"}

\* the page's state: tasks (task id -> status shown), the server's tasks,
\* the PUT /projects/tasks/:id not yet settled and the tasks whose move was
\* requested (each task is moved once)
KanbanState(tasks, srv, pend, moved) ==
    [kind |-> "projects", tasks |-> tasks, server |-> srv, pending |-> pend,
     moved |-> moved]

\* the page mounted, loadTasks answered: every task in To Do
InitKanban ==
    /\ SignedIn("t1", "employee", "/projects")
    /\ page = KanbanState([id \in TaskIds |-> "todo"], [id \in TaskIds |-> "todo"], {}, {})

\* moveTask(taskId, newStatus) up to its await; tasks is the list of the
\* render the handler was created in
MoveTask(taskId, newStatus) ==
    /\ taskId \notin page.moved
    /\ newStatus # page.tasks[taskId]
    /\ Cardinality(page.pending) < MaxMoves
    /\ page' = [page EXCEPT !.moved = @ \cup {taskId},
                            !.pending = @ \cup
                                {[id |-> taskId, status |-> newStatus, tasks |-> page.tasks]}]
    /\ last' = Quiet("move_task")
    /\ UNCHANGED session

\* moveTask after the await: the server stored the status and returned the
\* task, setTasks(tasks.map(t => t.id === taskId ? res.data : t)); or the
\* catch's toast
MoveTaskSettle(r, ok) ==
    /\ r \in page.pending
    /\ page' = IF ok
               THEN [page EXCEPT !.pending = @ \ {r},
                                 !.server = [@ EXCEPT ![r.id] = r.status],
                                 !.tasks = [r.tasks EXCEPT ![r.id] = r.status]]
               ELSE [page EXCEPT !.pending = @ \ {r}]
    /\ last' = Op("move_task_settle", IF ok THEN "ok" ELSE "rejected", NoReq, NoUser,
                  IF ok THEN "task_moved" ELSE "move_failed")
    /\ UNCHANGED session

NextKanban ==
    \/ \E taskId \in TaskIds, newStatus \in COLUMNS : MoveTask(taskId, newStatus)
    \/ \E r \in page.pending, ok \in BOOLEAN : MoveTaskSettle(r, ok)

SpecKanban == InitKanban /\ [][NextKanban]_vars

\* ---------------------------------------------------- NotificationsPage
NotifIds == {"n1", "n2", "n3"}

\* the page's state: notifications (id -> read flag shown) and the PUTs not
\* yet settled
InboxState(read, pend) == [kind |-> "notifications", read |-> read, pending |-> pend]

\* const unread = notifications.filter(n => !n.read).length
unread(pg) == Cardinality({id \in NotifIds : ~pg.read[id]})

\* the page mounted and GET /notifications answered
InitInbox ==
    /\ SignedIn("t1", "employee", "/notifications")
    /\ \E read \in [NotifIds -> BOOLEAN] : page = InboxState(read, {})

\* markRead(id) up to its await, from the row's Mark Read button;
\* notifications is the list of the render the handler was created in
MarkRead(id) ==
    /\ ~page.read[id]
    /\ Cardinality(page.pending) < MaxMarks
    /\ page' = [page EXCEPT !.pending = @ \cup
                                {[op |-> "read", id |-> id, notifications |-> page.read]}]
    /\ last' = Quiet("mark_read")
    /\ UNCHANGED session

\* markAllRead() up to its await, from the Mark All Read button
MarkAllRead ==
    /\ unread(page) > 0
    /\ Cardinality(page.pending) < MaxMarks
    /\ page' = [page EXCEPT !.pending = @ \cup
                                {[op |-> "read_all", id |-> None, notifications |-> page.read]}]
    /\ last' = Quiet("mark_all_read")
    /\ UNCHANGED session

\* markRead / markAllRead after the await: setNotifications(notifications.map(...))
\* over the captured list, or the catch's toast
MarkSettle(r, ok) ==
    /\ r \in page.pending
    /\ page' = IF ok
               THEN [page EXCEPT !.pending = @ \ {r},
                                 !.read = [id \in NotifIds |->
                                              IF r.op = "read_all" \/ id = r.id
                                              THEN TRUE ELSE r.notifications[id]]]
               ELSE [page EXCEPT !.pending = @ \ {r}]
    /\ last' = Op("mark_settle", IF ok THEN "ok" ELSE "rejected", NoReq, NoUser,
                  IF ok THEN (IF r.op = "read_all" THEN "all_marked" ELSE None) ELSE "failed")
    /\ UNCHANGED session

NextInbox ==
    \/ \E id \in NotifIds : MarkRead(id)
    \/ MarkAllRead
    \/ \E r \in page.pending, ok \in BOOLEAN : MarkSettle(r, ok)

SpecInbox == InitInbox /\ [][NextInbox]_vars

\* ------------------------------------------------- RegisterPage: wizard
Domains == {"d1", "d2"}

\* the wizard's state: step, domains (the available results shown),
\* selectedDomain, purchasedDomain, searching, purchasing, the number of
\* POST /domains/check not yet settled and the domain of the
\* POST /domains/purchase not yet settled
WizardState(step, doms, sel, bought, srch, purch, n, req) ==
    [kind |-> "register", step |-> step, domains |-> doms, selectedDomain |-> sel,
     purchasedDomain |-> bought, searching |-> srch, purchasing |-> purch,
     searches |-> n, purchase |-> req]

\* /register opened by a visitor: the useState initial values
InitWizard ==
    /\ user = NoUser
    /\ token = None
    /\ loading = FALSE
    /\ ls = None
    /\ header = None
    /\ mounted = TRUE
    /\ loc = "/register"
    /\ view = AppRoutes(user, FALSE, loc)
    /\ nav = AppShell(user, view)
    /\ inflight = EmptyBag
    /\ pollDue = FALSE
    /\ checking = FALSE
    /\ last = Quiet("init")
    /\ page = WizardState(1, {}, None, None, FALSE, FALSE, 0, None)

\* searchDomains() up to its await, from the button or the Enter key
SearchDomains(filled) ==
    /\ page.step = 1
    /\ IF filled
       THEN /\ page.searches < MaxSearches
            /\ page' = [page EXCEPT !.searching = TRUE, !.searches = @ + 1]
            /\ last' = Quiet("search")
       ELSE /\ page' = page
            /\ last' = Op("search", "invalid", NoReq, NoUser, "enter_domain")
    /\ UNCHANGED session

\* searchDomains() after the await: setDomains(res.data) or the toast, then
\* finally setSearching(false)
SearchSettle(found, ok) ==
    /\ page.kind = "register"
    /\ page.searches > 0
    /\ page' = [page EXCEPT !.searches = @ - 1, !.searching = FALSE,
                            !.domains = IF ok THEN found ELSE @]
    /\ last' = Op("search_settle", IF ok THEN "ok" ELSE "rejected", NoReq, NoUser,
                  IF ok THEN None ELSE "search_failed")
    /\ UNCHANGED session

\* a click on the card of an available domain
SelectDomain(d) ==
    /\ page.step = 1
    /\ d \in page.domains
    /\ page' = [page EXCEPT !.selectedDomain = d]
    /\ last' = Quiet("select")
    /\ UNCHANGED session

\* purchaseDomain() up to its await; the button is rendered in step 1 when a
\* domain is selected and is disabled while purchasing
PurchaseDomain ==
    /\ page.step = 1
    /\ page.selectedDomain # None
    /\ ~page.purchasing
    /\ page' = [page EXCEPT !.purchasing = TRUE, !.purchase = page.selectedDomain]
    /\ last' = Quiet("purchase")
    /\ UNCHANGED session

PurchaseSettleAlwaysAdvances(ok) ==
    /\ page.kind = "register"
    /\ page.purchase # None
    /\ page' = [page EXCEPT !.purchase = None, !.purchasing = FALSE,
                            !.purchasedDomain = IF ok THEN page.purchase ELSE @,
                            !.step = 2]
    /\ last' = Op("purchase_settle", IF ok THEN "ok" ELSE "rejected", NoReq, NoUser,
                  IF ok THEN "purchased" ELSE "purchase_failed")
    /\ UNCHANGED session

\* purchaseDomain() after the await: setPurchasedDomain(res.data), setStep(2)
\* or the catch's toast, then finally setPurchasing(false)
PurchaseSettle(ok) ==
    /\ page.kind = "register"
    /\ page.purchase # None
    /\ page' = [page EXCEPT !.purchase = None, !.purchasing = FALSE,
                            !.purchasedDomain = IF ok THEN page.purchase ELSE @,
                            !.step = IF ok THEN 2 ELSE @]
    /\ last' = Op("purchase_settle", IF ok THEN "ok" ELSE "rejected", NoReq, NoUser,
                  IF ok THEN "purchased" ELSE "purchase_failed")
    /\ UNCHANGED session

\* the Back to domain button of step 2: setStep(1)
BackToDomain ==
    /\ page.step = 2
    /\ page' = [page EXCEPT !.step = 1]
    /\ last' = Quiet("back")
    /\ UNCHANGED session

NextWizard ==
    \/ \E filled \in BOOLEAN : SearchDomains(filled)
    \/ \E found \in SUBSET Domains, ok \in BOOLEAN : SearchSettle(found, ok)
    \/ \E d \in Domains : SelectDomain(d)
    \/ PurchaseDomain
    \/ \E ok \in BOOLEAN : PurchaseSettle(ok)
    \/ BackToDomain

SpecWizard == InitWizard /\ [][NextWizard]_vars

\* ---------------------------------------------------------------- status
Authenticated == ~loading /\ user # NoUser
Anonymous == ~loading /\ user = NoUser

\* ---------------------------------------------------------------- claims
\* C1: in every reachable state, status=authenticated (loading false, user
\* present) implies a token is present, and status=anonymous (loading
\* false, user absent) implies the token is absent.
C1_SessionInvariant ==
    /\ Authenticated => token # None
    /\ Anonymous => token = None

\* C2: when the refresh (GET /auth/me) for a held token T is rejected, the
\* session is cleared entirely (T removed from durable storage, in-memory
\* token and user absent, status anonymous), and the next app load is a
\* load with no stored token: no refresh call, no authenticated view.
RefreshRejected(op) == op.op = "refresh" /\ op.out = "rejected"
C2_RejectedRefreshClears ==
    [][ /\ RefreshRejected(last') =>
              (ls' = None /\ token' = None /\ user' = NoUser /\ Anonymous')
        /\ (RefreshRejected(last) /\ last'.op = "reload") =>
              (ls' = None /\ token' = None)
        /\ (last.op = "reload" /\ ls = None /\ last'.op = "mount") =>
              (inflight' = EmptyBag /\ Anonymous' /\ view'.kind # "shell")
      ]_vars
C2_Witness ==
    /\ RefreshRejected(last)
    /\ last.sent \in Tokens
    /\ ls = None

\* C3: a network/transport failure of a request leaves the session
\* unchanged: an authenticated user stays authenticated with token and
\* durable storage intact, for refresh as well as for module calls.
C3_TransportFailureKeepsSession ==
    [][ (last'.out = "network" /\ Authenticated /\ token # None) =>
            (Authenticated' /\ user' = user /\ token' = token /\ ls' = ls) ]_vars

\* C3 (amended): a network/transport failure of a login or module request
\* leaves the session unchanged; a refresh (GET /auth/me) that fails for
\* transport reasons clears the session exactly as a rejection does.
C3_TransportFailureExceptRefresh ==
    [][ /\ (last'.op \in {"login", "module"} /\ last'.out = "network") =>
              UNCHANGED <<user, token, loading, ls>>
        /\ (last'.op = "refresh" /\ last'.out = "network") =>
              (ls' = None /\ token' = None /\ user' = NoUser /\ Anonymous')
      ]_vars
C3_Witness ==
    /\ last.op = "module"
    /\ last.out = "network"
    /\ Authenticated
    /\ token \in Tokens
    /\ ls = token

\* C4: when login fails (credentials rejected or network error) the session
\* (token, user, loading flag, durable-storage token) is what it was, the
\* login page shows an error and does not navigate.
LoginFailed(op) == op.op = "login" /\ op.out \in {"rejected", "network"}
C4_FailedLoginKeepsState ==
    [][ LoginFailed(last') =>
            /\ UNCHANGED <<user, token, loading, ls, header, loc, view, nav>>
            /\ last'.toast = IF last'.origin = "login_page"
                             THEN "login_failed"
                             ELSE "registration_failed" ]_vars
C4_Witness ==
    /\ LoginFailed(last)
    /\ view = Page("/login")
    /\ Anonymous

\* C5: when login succeeds, the returned token is in durable storage and in
\* the in-memory token, the returned profile is the user, and the status
\* is authenticated.
C5_LoginStoresSession ==
    (last.op = "login" /\ last.out = "ok") =>
        /\ ls = last.sent
        /\ token = last.sent
        /\ user = last.resp
        /\ Authenticated
C5_Witness ==
    /\ last.op = "login"
    /\ last.out = "ok"
    /\ token \in Tokens
    /\ user \in Profiles

\* C6: logout succeeds locally without issuing any network request: right
\* after it the token is absent from durable storage, the in-memory token
\* and user are absent, and the status is anonymous.
C6_LogoutClearsLocally ==
    [][ last'.op = "logout" =>
            /\ ls' = None
            /\ token' = None
            /\ user' = NoUser
            /\ Anonymous'
            /\ inflight' = inflight ]_vars
C6_Witness ==
    /\ last.op = "logout"
    /\ inflight # EmptyBag
    /\ Anonymous

\* C7: for every token T in durable storage before startup, if the refresh
\* issued for T at mount succeeds, the status is authenticated and the user
\* is the profile the server answered with for T.
StartupRefreshOk(op) == op.op = "refresh" /\ op.out = "ok" /\ op.origin = "mount"
C7_StartupRefreshAuthenticates ==
    StartupRefreshOk(last) =>
        /\ Authenticated
        /\ user = last.resp
        /\ user.id = IdOf(last.sent)
        /\ token = last.sent
        /\ ls = last.sent
C7_Witness ==
    /\ StartupRefreshOk(last)
    /\ last.sent \in Tokens
    /\ view.kind = "shell"

\* C8: within one app load, the user or the token is cleared only by
\* logout() or by a refresh that fails; no other operation or response
\* (module request failures, login failures, navigation) clears them.
Demoted == (user # NoUser /\ user' = NoUser) \/ (token # None /\ token' = None)
C8_OnlyLogoutOrFailedRefreshDemotes ==
    [][ (Demoted /\ last'.op # "reload") =>
            \/ last'.op = "logout"
            \/ (last'.op = "refresh" /\ last'.out \in {"rejected", "network"}) ]_vars
C8_Witness ==
    /\ last.op = "module"
    /\ last.out = "rejected"
    /\ Authenticated
    /\ token # None

\* C9: any refresh() invoked while no token is held (after logout() and
\* before a new login) issues no network request and leaves the status
\* anonymous, whoever holds the refresh function.
NoNewRefreshRequest ==
    \A r \in BagToSet(inflight') :
        r.kind = "me" => CopiesIn(r, inflight') <= CopiesIn(r, inflight)
C9_NoRefreshRequestAfterLogout ==
    [][ (mounted /\ token = None /\ last'.op # "login") =>
            /\ NoNewRefreshRequest
            /\ ((last'.op = "poll" /\ last'.out = "paid" /\ Anonymous) => Anonymous') ]_vars

\* C10: while status=loading the router renders only the waiting indicator:
\* no protected view, no page and no redirect.
C10_LoadingRendersSpinner ==
    loading => view = Spinner
C10_Witness ==
    /\ loading
    /\ mounted
    /\ inflight # EmptyBag
    /\ Pathname(loc) \in ProtectedPaths
    /\ view = Spinner

\* C11: when status=anonymous, a navigation to any protected path is
\* answered with a redirect to /login, and no protected view is rendered.
C11_AnonymousIsRedirected ==
    Anonymous =>
        /\ view.kind # "shell"
        /\ nav = NoNav
        /\ Pathname(loc) \in ProtectedPaths => view = NavigateTo("/login")
C11_Witness ==
    /\ Anonymous
    /\ last.op = "goto"
    /\ loc = "/audit-logs"
    /\ view = NavigateTo("/login")

C13_NoTokenNoRequest ==
    (last.op = "mount" /\ ls = None) =>
        /\ inflight = EmptyBag
        /\ Anonymous
        /\ token = None
C13_Witness ==
    /\ last.op = "mount"
    /\ ls = None
    /\ ~loading
    /\ Pathname(loc) \in ProtectedPaths

\* C14: if a token is in durable storage at startup, the status is loading
\* from mount with exactly one refresh in flight, issued for that token;
\* when that call settles the status is authenticated or anonymous; and,
\* the call eventually settling, loading ends within the app load.
StartupRefresh == SetToBag({Req("me", token, None, "mount", 0)})
C14_StartupRefreshResolves ==
    /\ []((last.op = "mount" /\ ls # None) => (loading /\ token = ls))
    /\ []((mounted /\ loading) => (token \in Tokens /\ inflight = StartupRefresh))
    /\ [][(loading /\ last'.op = "refresh") => (Authenticated' \/ Anonymous')]_vars
    /\ (mounted /\ loading) ~> (~loading \/ ~mounted)
C14_Witness ==
    /\ last.op = "refresh"
    /\ last.origin = "mount"
    /\ last.out = "network"
    /\ Anonymous

\* C15: every request issued while a token is held carries Authorization:
\* Bearer <the held token> (the startup refresh, the refresh after a login
\* and the first data requests of a protected view mounted right after
\* login included), and a request issued while no token is held carries no
\* Authorization header.
Issued(r) == CopiesIn(r, inflight') > CopiesIn(r, inflight)
C15_RequestsCarryHeldToken ==
    [][\A r \in BagToSet(inflight') :
           (r.kind # "timer" /\ Issued(r)) => r.sent = token']_vars

\* C16: when a module endpoint rejects the bearer token as invalid or
\* expired, the Session Store treats the error as a log-out: the session is
\* cleared and the status becomes anonymous.
ModuleRejected(op) == op.op = "module" /\ op.out = "rejected" /\ op.sent \in Tokens
C16_ModuleRejectionLogsOut ==
    [][ ModuleRejected(last') =>
            (ls' = None /\ token' = None /\ user' = NoUser /\ Anonymous') ]_vars

\* C16 (amended): a module endpoint's rejection of the bearer token is
\* swallowed by the calling view; the session (user, token, loading flag,
\* durable-storage token, Authorization header) and the rendered view are
\* what they were.
C16_ModuleRejectionKeepsSession ==
    [][ ModuleRejected(last') =>
            UNCHANGED <<user, token, loading, ls, header, loc, view, nav>> ]_vars
C16_Witness ==
    /\ ModuleRejected(last)
    /\ last.sent = token
    /\ Authenticated
    /\ ls = token
    /\ view.kind = "shell"

\* C17: the session (in-memory token and user) and the durable-storage
\* token are written only by the Session Store operations (login, biometric
\* login, logout, refresh); no page or component writes the token key in
\* durable storage or changes the session directly.
C17_OnlyStoreWritesSession ==
    [][ (ls' # ls \/ ((token' # token \/ user' # user) /\ last'.op # "reload")) =>
            last'.op \in {"login", "logout", "refresh"} ]_vars

\* C18: for every role r and the static lists NAV_ITEMS and ADMIN_NAV, the
\* navigation filter returns exactly the entries whose allowed roles
\* contain r, in their original order (an ordered sub-sequence).
Matching(items, role) == {j \in 1..Len(items) : role \in items[j].roles}
NthMatching(items, role, i) ==
    CHOOSE k \in Matching(items, role) :
        Cardinality({j \in Matching(items, role) : j < k}) = i - 1
IsSubSequenceFor(out, items, role) ==
    /\ Len(out) = Cardinality(Matching(items, role))
    /\ \A i \in 1..Len(out) : out[i] = items[NthMatching(items, role, i)]
C18_FilterIsOrderedSubSequence ==
    view.kind = "shell" =>
        /\ IsSubSequenceFor(nav.main, NAV_ITEMS, user.role)
        /\ IsSubSequenceFor(nav.admin, ADMIN_NAV, user.role)
C18_Witness ==
    /\ view.kind = "shell"
    /\ user.role = "employee"
    /\ Len(nav.main) = 5
    /\ nav.main[1].path = "/dashboard"
    /\ nav.main[2].path = "/projects"
    /\ nav.admin = << >>

\* C19: after loading with a valid token, the navigation offered by the
\* shell contains only entries whose allowed roles include the resolved
\* role; for role=employee it offers Dashboard, Projects, HR, Finance and
\* Subscription and no entry leading to CRM or Users.
C19_NavigationOnlyAllowedEntries ==
    view.kind = "shell" =>
        /\ \A e \in Range(NAV_ITEMS) \cup Range(ADMIN_NAV) :
               e.path \in Offered(nav) => user.role \in e.roles
        /\ user.role = "employee" =>
               /\ {"/dashboard", "/projects", "/hr", "/finance", "/subscription"}
                      \subseteq Offered(nav)
               /\ "/crm" \notin Offered(nav)
               /\ "/users" \notin Offered(nav)

\* C21: the initial status is resolved once per app load: once the loading
\* flag is false it is never true again before the next page load, whatever
\* logins, logouts, token changes and refreshes follow.
C21_LoadingNeverReturns ==
    [][ (~loading /\ last'.op # "reload") => ~loading' ]_vars
C21_Witness ==
    /\ ~loading
    /\ last.op = "refresh"
    /\ last.origin = "effect"
    /\ last.out = "ok"
    /\ Authenticated

\* C22: after logout() has run, the response of a refresh (GET /auth/me)
\* issued before the logout is not applied to the session: the user stays
\* absent and no protected view is rendered.
C22_StaleRefreshNotApplied ==
    [][ (last.op = "logout" /\ last'.op = "refresh") =>
            (user' = NoUser /\ view'.kind # "shell") ]_vars

\* C23: whenever no session operation (login, registration, refresh) is in
\* the middle of executing, the in-memory token equals the token in durable
\* storage; in particular an anonymous session leaves no token in durable
\* storage, also when a registration succeeds and the follow-up login fails.
NoSessionOperationRunning ==
    \A r \in Pending : r.kind \notin {"login", "register", "me"}
C23_TokenMatchesStorage ==
    NoSessionOperationRunning =>
        /\ token = ls
        /\ Anonymous => ls = None

\* C24: in the shell a notification fetch is issued on every path change,
\* none is cancelled and none is guarded by a sequence number: each response
\* is applied when it settles, so when an earlier fetch settles after a
\* later one the list and the unread count shown are those of the earlier
\* fetch.
C24_StaleFetchOverwrites ==
    [][ /\ last'.op = "goto" =>
               (page'.issued = page.issued + 1 /\ page.pending \subseteq page'.pending)
        /\ last'.op = "notifications" =>
               (page'.shown = page'.applied.data /\ Unread(page') = page'.applied.data)
      ]_vars
C24_Witness ==
    /\ last.op = "notifications"
    /\ page.applied.seq < page.newest.seq
    /\ page.shown = page.applied.data
    /\ page.shown # page.newest.data

\* C25: the user-management view never lets the current user edit their own
\* role: a role-update request is issued only by a viewer whose role is
\* super_admin and only for a row whose id differs from the viewer's id; in
\* every other case the role is shown read-only.
C25_NoSelfRoleEdit ==
    page.kind = "users" =>
        /\ \A id \in UserIds :
               page.cells[id] = "select" <=> (user.role = "super_admin" /\ id # user.id)
        /\ \A r \in page.pending : r.by.role = "super_admin" /\ r.id # r.by.id
C25_Witness ==
    /\ page.kind = "users"
    /\ user.role = "super_admin"
    /\ page.cells[user.id] = "badge"
    /\ \E r \in page.pending : r.by = user /\ r.id # user.id

\* C26: whatever the server answers, a payment poll issues at most 5 status
\* requests, one per attempt, re-armed by the timer only when the payment is
\* neither paid nor expired, and ends with the checking flag cleared: on
\* paid (then the profile is refreshed), on expired, on a request error or
\* on reaching 5 attempts; so the checking flag is eventually cleared.
PollEnds(op) ==
    /\ op.origin = "poll"
    /\ \/ op.op = "poll" /\ op.out \in {"paid", "expired", "error"}
       \/ op.op = "timer" /\ op.toast = "timed_out"
Timers(reqs) ==
    BagCardinality([r \in {q \in BagToSet(reqs) : q.kind = "timer"} |-> CopiesIn(r, reqs)])
C26_PollIsBoundedAndClearsFlag ==
    /\ [](\A r \in Pending :
              /\ r.kind = "poll" => r.attempts < MaxAttempts
              /\ r.kind = "timer" => r.attempts <= MaxAttempts)
    /\ [][ /\ PollEnds(last') => ~checking'
           /\ (last'.op = "poll" /\ last'.out = "paid" /\ token # None) =>
                  \E r \in BagToSet(inflight') :
                      r.kind = "me" /\ CopiesIn(r, inflight') > CopiesIn(r, inflight)
           /\ Timers(inflight') > Timers(inflight) =>
                  (last'.op = "poll" /\ last'.out = "pending")
         ]_vars
    /\ checking ~> ~checking
C26_Witness ==
    /\ last.op = "timer"
    /\ last.toast = "timed_out"
    /\ last.origin = "poll"
    /\ ~checking
    /\ SubscriptionShown(view)

\* C27: if two moveTask operations on two different tasks are in flight at
\* the same time and both succeed, then after both have settled the board
\* shows both tasks with the status the server returned for their move,
\* whatever the order of settlement.
C27_NoMoveIsLost ==
    (page.kind = "projects" /\ page.pending = {}) =>
        \A id \in TaskIds : page.tasks[id] = page.server[id]

\* C28: on the notifications page a markRead or markAllRead that settles
\* never increases the unread count, and a notification shown as read stays
\* read, whatever requests are in flight and in whatever order they settle.
C28_ReadStaysRead ==
    [][ last'.op = "mark_settle" =>
            /\ unread(page') <= unread(page)
            /\ \A id \in NotifIds : page.read[id] => page'.read[id] ]_vars

\* C29: in the registration wizard step 2 is shown only when a purchased
\* domain is recorded (the record is empty when the page opens and is
\* written only by a purchase that succeeded), a purchase that fails leaves
\* the wizard on step 1 with the record untouched, and Back to domain
\* returns to step 1 without forgetting the purchased domain.
C29_StepTwoNeedsPurchase ==
    /\ [](page.step = 2 => page.purchasedDomain \in Domains)
    /\ [][ /\ (page.purchasedDomain # page'.purchasedDomain) =>
                (last'.op = "purchase_settle" /\ last'.out = "ok" /\ page'.step = 2
                 /\ page'.purchasedDomain = page.purchase)
           /\ (last'.op = "purchase_settle" /\ last'.out # "ok") =>
                (page.step = 1 /\ page'.step = 1)
           /\ last'.op = "back" =>
                (page'.step = 1 /\ page'.purchasedDomain = page.purchasedDomain
                 /\ page'.purchasedDomain \in Domains) ]_vars

\* back on step 1 after a purchase, a second purchase has failed
C29_Witness ==
    /\ page.kind = "register" /\ page.step = 1 /\ page.purchasedDomain \in Domains
    /\ last.op = "purchase_settle" /\ last.out = "rejected"

\* C30: for every role the user-management selector can assign, the shell's
\* filtered main navigation is not empty and contains the Dashboard entry.
C30_EveryRoleHasDashboard ==
    (view.kind = "shell" /\ user.role \in AssignableRoles) =>
        /\ nav.main # << >>
        /\ \E i \in 1..Len(nav.main) : nav.main[i].path = "/dashboard"
====
